---- MODULE Spec2Model ----
(***************************************************************************)
(* Model of class MineSweeper of src/minesweeper.py: the board, the mine   *)
(* placement loop of the constructor, open() and flag(), and the flag      *)
(* removal that right_clicked performs on self.flagged.                    *)
(***************************************************************************)
EXTENDS Integers, FiniteSets, Sequences, TLC

VARIABLES
    columns,          \* self.columns
    rows,             \* self.rows
    mines_density,    \* constructor argument, a dyadic rational <<num, den>>
    pc,               \* "placing" (in the while loop), "play" (constructed),
                      \* "failed" (the constructor raised)
    _mines,           \* self._mines
    opened,           \* self.opened
    flagged,          \* self.flagged
    mines_near,       \* self.mines_near, a dict: function on its key set
    empty_remaining,  \* self.empty_remaining
    call,             \* the last call made on the board: "none", "open",
                      \* "flag", "unflag" or "right_click"
    signals,          \* messages of the last call: subset of {"Loss", "Win"}
    error,            \* exception raised by the last call, or "none"
    wins              \* number of calls of win() so far

vars == <<columns, rows, mines_density, pc, _mines, opened, flagged,
          mines_near, empty_remaining, call, signals, error, wins>>

board == <<opened, flagged, mines_near, empty_remaining>>

config == <<columns, rows, mines_density, _mines>>

----------------------------------------------------------------------------
(* Bounds of the model *)

\* Largest number of squares of a board that is explored.
MaxCells == 4

\* Arguments given to the constructor: every pair of dimensions from -1 up
\* whose board has at most MaxCells squares.
Dimensions == {d \in (-1..MaxCells) \X (-1..MaxCells) :
                   d[1] * d[2] <= MaxCells /\ d[1] * d[2] >= -MaxCells}

\* Densities tried, as <<numerator, denominator>>; all are dyadic, so the
\* float products of the constructor are exact.
Densities == {<<-1, 2>>, <<0, 1>>, <<1, 2>>, <<1, 1>>, <<3, 2>>}

----------------------------------------------------------------------------
(* The constructor *)

\* Variant: rounding to the nearest integer instead of truncating.
int_round(n, d) == (2 * n + d) \div (2 * d)

\* int(x) of a rational n/d, d > 0: truncation toward zero.
int(n, d) == IF n >= 0 THEN n \div d ELSE -((-n) \div d)

\* The whole board.
xys == {xy \in (0..(columns - 1)) \X (0..(rows - 1)) : TRUE}

\* Variant: only the squares that share a side with <<x, y>>.
around_orthogonal(x, y) ==
    {n \in {<<x - 1, y>>, <<x + 1, y>>, <<x, y - 1>>, <<x, y + 1>>} :
        n \in xys}

\* Variant: the center is not excluded.
around_with_center(x, y) ==
    {n \in {x - 1, x, x + 1} \X {y - 1, y, y + 1} : n \in xys}

\* The squares around <<x, y>>: the 3x3 area, except the center, inside
\* the board.
around(x, y) == {n \in {x - 1, x, x + 1} \X {y - 1, y, y + 1} :
                    n /= <<x, y>> /\ n \in xys}

\* self.neighbours: a dict whose keys are the squares of the board.
neighbours == [xy \in xys |-> around(xy[1], xy[2])]

\* {}: a dict without keys.
empty_dict == [k \in {} |-> 0]

mines_number == int(mines_density[1] * columns * rows, mines_density[2])

Init ==
    /\ \E d \in Dimensions : columns = d[1] /\ rows = d[2]
    /\ mines_density \in Densities
    /\ pc = "placing"
    /\ _mines = {}
    /\ opened = {}
    /\ flagged = {}
    /\ mines_near = empty_dict
    /\ empty_remaining = 0
    /\ call = "none"
    /\ signals = {}
    /\ error = "none"
    /\ wins = 0

\* Variant: the last value is never returned.
randrange_short(n) == 0..(n - 2)

\* random.randrange(n): the values it can return; none when n <= 0, where it
\* raises ValueError.
randrange(n) == 0..(n - 1)

\* One iteration of the while loop that draws a square.
PlaceMine ==
    /\ pc = "placing"
    /\ Cardinality(_mines) < mines_number
    /\ randrange(columns) /= {} /\ randrange(rows) /= {}
    /\ \E x \in randrange(columns), y \in randrange(rows) :
           _mines' = _mines \cup {<<x, y>>}
    /\ UNCHANGED <<columns, rows, mines_density, pc, opened, flagged,
                   mines_near, empty_remaining, call, signals, error, wins>>

\* One iteration of the while loop in which randrange raises.
PlaceMineRaises ==
    /\ pc = "placing"
    /\ Cardinality(_mines) < mines_number
    /\ (randrange(columns) = {} \/ randrange(rows) = {})
    /\ pc' = "failed"
    /\ error' = "ValueError"
    /\ UNCHANGED <<columns, rows, mines_density, _mines, opened, flagged,
                   mines_near, empty_remaining, call, signals, wins>>

\* The loop is left and the public data is set.
Constructed ==
    /\ pc = "placing"
    /\ ~(Cardinality(_mines) < mines_number)
    /\ empty_remaining' = columns * rows - mines_number
    /\ opened' = {}
    /\ flagged' = {}
    /\ mines_near' = empty_dict
    /\ pc' = "play"
    /\ UNCHANGED <<columns, rows, mines_density, _mines, call, signals, error,
                   wins>>

----------------------------------------------------------------------------
(* Calls on a constructed board *)

\* The coordinate outside the board that callers are let to pass: one
\* column past the last.
outside == {<<columns, 0>>}

\* Arguments of open, flag and the flag removal.
Inputs == xys \cup outside

\* Variant: a new dict is made instead of updating d.
setitem_fresh(d, k, v) == [j \in {k} |-> v]

\* d[k] = v on a dict.
setitem(d, k, v) == [j \in DOMAIN d \cup {k} |-> IF j = k THEN v ELSE d[j]]

\* Variant: nothing is added.
flag_nothing(f, xy) == f

\* Variant: opened squares are not flagged.
flag_closed_only(f, xy) == IF xy \in opened THEN f ELSE f \cup {xy}

\* flag(): self.flagged.add(xy)
flag(f, xy) == f \cup {xy}

\* Variant: the test looks at the flags.
already_flagged(xy) == xy \in flagged

\* Variant: no early return.
never_opened(xy) == FALSE

\* Variant: every flag is dropped.
remove_all(f, xy) == {}

\* self.flagged.remove(xy) on a set that holds xy.
remove(f, xy) == f \ {xy}

\* The first test of open().
already_opened(xy) == xy \in opened

\* len(self.neighbours[xy] & self._mines)
count_mines_near(xy) == Cardinality(neighbours[xy] \cap _mines)

\* Variant: off by one, win() one square early.
all_opened_early(remaining) == remaining <= 1

\* Variant: strict comparison, win() never at zero.
all_opened_late(remaining) == remaining < 0

\* The test that guards the call of win().
all_opened(remaining) == remaining <= 0

\* open(xy), with the calls of flag(), lose() and win() it makes.
Open(xy) ==
    /\ pc = "play"
    /\ call' = "open"
    /\ IF already_opened(xy)
       THEN /\ signals' = {}
            /\ error' = "none"
            /\ UNCHANGED <<opened, flagged, mines_near, empty_remaining, wins>>
       ELSE /\ opened' = opened \cup {xy}
            /\ IF xy \in _mines
               THEN /\ mines_near' = setitem(mines_near, xy, "mine")
                    /\ flagged' = flag(flagged, xy)
                    /\ signals' = {"Loss"}
                    /\ error' = "none"
                    /\ UNCHANGED <<empty_remaining, wins>>
               ELSE IF xy \notin DOMAIN neighbours
               THEN \* self.neighbours[xy] raises, after opened.add(xy)
                    /\ error' = "KeyError"
                    /\ signals' = {}
                    /\ UNCHANGED <<flagged, mines_near, empty_remaining, wins>>
               ELSE /\ mines_near' =
                           setitem(mines_near, xy, count_mines_near(xy))
                    /\ flagged' = flagged \ {xy}
                    /\ empty_remaining' = empty_remaining - 1
                    /\ error' = "none"
                    /\ IF all_opened(empty_remaining')
                       THEN signals' = {"Win"} /\ wins' = wins + 1
                       ELSE signals' = {} /\ wins' = wins
    /\ UNCHANGED config
    /\ UNCHANGED pc

\* flag(xy) called by the player.
Flag(xy) ==
    /\ pc = "play"
    /\ call' = "flag"
    /\ flagged' = flag(flagged, xy)
    /\ signals' = {}
    /\ error' = "none"
    /\ UNCHANGED <<opened, mines_near, empty_remaining, wins>>
    /\ UNCHANGED config
    /\ UNCHANGED pc

\* self.flagged.remove(xy): removes xy, raises KeyError when it is absent.
Unflag(xy) ==
    /\ pc = "play"
    /\ call' = "unflag"
    /\ IF xy \in flagged
       THEN flagged' = remove(flagged, xy) /\ error' = "none"
       ELSE flagged' = flagged /\ error' = "KeyError"
    /\ signals' = {}
    /\ UNCHANGED <<opened, mines_near, empty_remaining, wins>>
    /\ UNCHANGED config
    /\ UNCHANGED pc

Next ==
    \/ PlaceMine
    \/ PlaceMineRaises
    \/ Constructed
    \/ \E xy \in Inputs : Open(xy)
    \/ \E xy \in Inputs : Flag(xy)
    \/ \E xy \in Inputs : Unflag(xy)

Spec == Init /\ [][Next]_vars

----------------------------------------------------------------------------
(* The board driven by the buttons of MineSweeperGUI *)

\* Variant: the flag of an opened mine is not kept.
forced_flag_never(xy) == FALSE

\* The test of right_clicked that keeps the flag of an opened mine.
forced_flag(xy) == xy \in opened /\ xy \in _mines

\* clicked: open(xy) of MineSweeperGUI, which is open(xy) of MineSweeper
\* followed by refresh(xy); refresh writes to the widgets only.
Clicked(xy) == Open(xy)

\* right_clicked: sets the flag, or removes it unless xy is an opened mine.
RightClicked(xy) ==
    /\ pc = "play"
    /\ call' = "right_click"
    /\ IF xy \notin flagged
       THEN flagged' = flag(flagged, xy)
       ELSE IF forced_flag(xy)
       THEN flagged' = flagged
       ELSE flagged' = remove(flagged, xy)
    /\ signals' = {}
    /\ error' = "none"
    /\ UNCHANGED <<opened, mines_near, empty_remaining, wins>>
    /\ UNCHANGED config
    /\ UNCHANGED pc

\* There is one button for each square of the board.
NextGUI ==
    \/ PlaceMine
    \/ PlaceMineRaises
    \/ Constructed
    \/ \E xy \in xys : Clicked(xy)
    \/ \E xy \in xys : RightClicked(xy)

SpecGUI == Init /\ [][NextGUI]_vars

----------------------------------------------------------------------------
(* The constructor alone, with fair sampling *)

\* An iteration of the while loop that draws a square without a mine.
DrawsNewMine == PlaceMine /\ _mines' /= _mines

NextPlacing ==
    \/ PlaceMine
    \/ PlaceMineRaises
    \/ Constructed

\* The constructor runs on; random.randrange draws uniformly, so that a
\* square without a mine is drawn in the end as long as there is one.
SpecPlacing ==
    /\ Init
    /\ [][NextPlacing]_vars
    /\ WF_vars(DrawsNewMine)
    /\ WF_vars(PlaceMineRaises)
    /\ WF_vars(Constructed)

----------------------------------------------------------------------------
(* Larger boards, followed up to their first open *)

\* Largest side of a board of SpecFirstOpen.
MaxSide == 3

\* Boards of SpecFirstOpen: every side from 1 to MaxSide, no mine or one
\* mine for each 8 squares.
InitFirstOpen ==
    /\ columns \in 1..MaxSide
    /\ rows \in 1..MaxSide
    /\ mines_density \in {<<0, 1>>, <<1, 8>>}
    /\ pc = "placing"
    /\ _mines = {}
    /\ opened = {}
    /\ flagged = {}
    /\ mines_near = empty_dict
    /\ empty_remaining = 0
    /\ call = "none"
    /\ signals = {}
    /\ error = "none"
    /\ wins = 0

\* The first call on a new board is open(xy).
FirstOpen(xy) == call = "none" /\ Open(xy)

NextFirstOpen ==
    \/ PlaceMine
    \/ Constructed
    \/ \E xy \in xys : FirstOpen(xy)

SpecFirstOpen == InitFirstOpen /\ [][NextFirstOpen]_vars

----------------------------------------------------------------------------
(* Vocabulary of the properties *)

\* The configurations the construction's preconditions admit:
\* columns > 0, rows > 0, 0 <= density < 1.
ValidConfig ==
    /\ columns > 0
    /\ rows > 0
    /\ mines_density[1] >= 0
    /\ mines_density[1] < mines_density[2]

\* A board has been constructed from an admitted configuration.
InPlay == pc = "play" /\ ValidConfig

\* The squares without a mine.
SafeCells == xys \ _mines

\* The opened squares of the board that are not mines.
OpenedSafe == (opened \cap xys) \ _mines

Abs(i) == IF i < 0 THEN -i ELSE i

\* Chebyshev distance of two coordinates.
Chebyshev(a, b) ==
    IF Abs(a[1] - b[1]) >= Abs(a[2] - b[2])
    THEN Abs(a[1] - b[1]) ELSE Abs(a[2] - b[2])

\* The number of mines at Chebyshev distance 1 of xy.
MinesAround(xy) ==
    Cardinality({n \in _mines : Chebyshev(n, xy) = 1})

----------------------------------------------------------------------------
(* C1 *)

\* C1: on a board constructed from an admitted configuration, after any
\* sequence of open, flag and unflag calls, empty_remaining equals the number
\* of squares without a mine minus the number of opened squares of the board
\* that are not mines, and it is never negative.
C1_RemainingCount ==
    InPlay =>
        /\ empty_remaining =
               Cardinality(SafeCells) - Cardinality(OpenedSafe)
        /\ empty_remaining >= 0

\* Some, not all, safe squares are opened, a mine is opened and a coordinate
\* outside the board has been passed to open.
C1_Witness ==
    /\ InPlay
    /\ OpenedSafe /= {}
    /\ opened \cap _mines /= {}
    /\ opened \cap outside /= {}
    /\ flagged /= {}
    /\ empty_remaining > 0
    /\ empty_remaining < Cardinality(SafeCells)

----------------------------------------------------------------------------
(* C2 *)

\* C2: on a board constructed from an admitted configuration, win() is called
\* exactly once: by the open that brings empty_remaining from 1 to 0, by no
\* earlier call and by no later open, flag or unflag; it has been called
\* exactly when every square without a mine is opened.
C2_WinOnce ==
    /\ [](InPlay => /\ wins \in {0, 1}
                    /\ (wins = 1) <=> (SafeCells \subseteq opened))
    /\ [][InPlay =>
            /\ ("Win" \in signals') <=> (wins' = wins + 1)
            /\ (wins' /= wins) <=>
                   /\ call' = "open"
                   /\ empty_remaining = 1
                   /\ empty_remaining' = 0]_vars

\* After the win a mine has been opened: Loss is signaled, win() stays
\* called once.
C2_Witness ==
    /\ InPlay
    /\ wins = 1
    /\ call = "open"
    /\ signals = {"Loss"}
    /\ empty_remaining = 0

----------------------------------------------------------------------------
(* C3 *)

\* C3: open(xy) on an xy already in opened changes none of opened,
\* mines_near, flagged and empty_remaining and signals neither Loss nor Win
\* nor an error; every open(xy) leaves xy in opened, so that a second
\* open(xy) is such a call.
C3_OpenIdempotent ==
    [][call' = "open" =>
          \A xy \in Inputs :
              /\ (xy \notin opened' /\ Open(xy)) => FALSE
              /\ (xy \in opened /\ Open(xy)) =>
                     /\ UNCHANGED board
                     /\ wins' = wins
                     /\ signals' = {}
                     /\ error' = "none"]_vars

\* Every safe square is opened and the last call was an open that signaled
\* nothing and raised nothing: it was the open of an opened square.
C3_Witness ==
    /\ InPlay
    /\ wins = 1
    /\ call = "open"
    /\ signals = {}
    /\ error = "none"
    /\ opened \cap _mines /= {}

----------------------------------------------------------------------------
(* C4 *)

\* C4: open(xy) on an unopened mine adds xy to opened, sets mines_near[xy]
\* to 'mine', adds xy to flagged, signals Loss and not Win, and leaves
\* empty_remaining unchanged.
C4_OpenMine ==
    [][call' = "open" => \A xy \in _mines :
          (xy \notin opened /\ Open(xy)) =>
              /\ opened' = opened \cup {xy}
              /\ xy \in DOMAIN mines_near'
              /\ mines_near'[xy] = "mine"
              /\ xy \in flagged'
              /\ signals' = {"Loss"}
              /\ error' = "none"
              /\ wins' = wins
              /\ empty_remaining' = empty_remaining]_vars

\* A mine has just been opened on the 1x1 board of density 1.
C4_Witness ==
    /\ columns = 1 /\ rows = 1 /\ mines_density = <<1, 1>>
    /\ call = "open"
    /\ signals = {"Loss"}
    /\ opened = {<<0, 0>>}
    /\ mines_near[<<0, 0>>] = "mine"
    /\ flagged = {<<0, 0>>}

----------------------------------------------------------------------------
(* C5 *)

\* C5: open(xy) on an unopened square of the board without a mine adds xy to
\* opened, sets mines_near[xy] to the number of mines at Chebyshev distance
\* 1 of xy, a number in 0..8, removes xy from flagged, decrements
\* empty_remaining by 1 and signals no Loss.
C5_OpenSafe ==
    [][call' = "open" => \A xy \in SafeCells :
          (xy \notin opened /\ Open(xy)) =>
              /\ opened' = opened \cup {xy}
              /\ xy \in DOMAIN mines_near'
              /\ mines_near'[xy] = MinesAround(xy)
              /\ mines_near'[xy] \in 0..8
              /\ xy \notin flagged'
              /\ empty_remaining' = empty_remaining - 1
              /\ "Loss" \notin signals'
              /\ error' = "none"]_vars

\* On a 2x2 board with two mines a safe square has been opened by the last
\* call; it has both mines around it, one of them diagonally.
C5_Witness ==
    /\ columns = 2 /\ rows = 2
    /\ call = "open"
    /\ signals = {}
    /\ error = "none"
    /\ opened \cap outside = {}
    /\ \E xy \in OpenedSafe :
           /\ mines_near[xy] = 2
           /\ xy \notin flagged
           /\ \E n \in _mines : n[1] /= xy[1] /\ n[2] /= xy[2]

----------------------------------------------------------------------------
(* C6 *)

\* C6: on a board constructed from an admitted configuration, once a mine
\* has been opened, open(xy) on an unopened square without a mine still sets
\* mines_near[xy] to the number of mines around xy, decrements
\* empty_remaining, signals no Loss, and signals Win exactly when it opens
\* the last square without a mine.
C6_PlayAfterLoss ==
    [][call' = "open" => \A xy \in SafeCells :
          (InPlay /\ opened \cap _mines /= {} /\ xy \notin opened /\ Open(xy))
          =>  /\ mines_near'[xy] = MinesAround(xy)
              /\ empty_remaining' = empty_remaining - 1
              /\ "Loss" \notin signals'
              /\ ("Win" \in signals') <=> (SafeCells \subseteq opened')]_vars

\* The game is won by an open made after every mine was opened.
C6_Witness ==
    /\ InPlay
    /\ _mines /= {}
    /\ _mines \subseteq opened
    /\ call = "open"
    /\ signals = {"Win"}
    /\ wins = 1

----------------------------------------------------------------------------
(* C7 *)

\* C7: in every state reached by open, flag and unflag calls with any
\* coordinates, opened and flagged are subsets of the board's coordinates
\* and the key set of mines_near is opened.
C7_BoardSets ==
    InPlay =>
        /\ opened \subseteq xys
        /\ flagged \subseteq xys
        /\ DOMAIN mines_near = opened

----------------------------------------------------------------------------
(* C8 *)

\* C8: no call removes a coordinate from opened, and a key of mines_near
\* keeps its value in every later state.
C8_OpenedGrows ==
    [][/\ opened \subseteq opened'
       /\ \A xy \in DOMAIN mines_near :
              /\ xy \in DOMAIN mines_near'
              /\ mines_near'[xy] = mines_near[xy]]_vars

\* A mine and a safe square are opened, both with their values, and the
\* last call was a flag removal.
C8_Witness ==
    /\ pc = "play"
    /\ call = "unflag"
    /\ \E m \in opened \cap _mines : mines_near[m] = "mine"
    /\ \E xy \in OpenedSafe : mines_near[xy] >= 1

----------------------------------------------------------------------------
(* C9 *)

\* C9: open, flag and unflag on a coordinate outside the board raise an
\* error and change none of opened, flagged, mines_near and
\* empty_remaining.
C9_OutsideRejected ==
    [][\A xy \in outside :
          (InPlay /\ (Open(xy) \/ Flag(xy) \/ Unflag(xy))) =>
              /\ error' /= "none"
              /\ UNCHANGED board]_vars

----------------------------------------------------------------------------
(* C10 *)

\* C10: the constructor called with columns <= 0, rows <= 0, density < 0 or
\* density >= 1 raises and constructs no board.
C10_InvalidRejected ==
    ~ValidConfig => pc /= "play"

----------------------------------------------------------------------------
(* C11 *)

\* floor of the rational n/d, d > 0.
Floor(n, d) == n \div d

----------------------------------------------------------------------------
(* C12 *)

\* xy touches no edge of the board.
Interior(xy) ==
    /\ xy[1] > 0 /\ xy[1] < columns - 1
    /\ xy[2] > 0 /\ xy[2] < rows - 1

\* C12: for every square xy of the board, neighbours[xy] is the set of the
\* board's squares at Chebyshev distance 1 of xy; it excludes xy, has at
\* most 8 elements, exactly 8 when xy touches no edge, and a is a neighbour
\* of b exactly when b is a neighbour of a.
C12_Neighbours ==
    /\ DOMAIN neighbours = xys
    /\ \A xy \in xys :
           /\ neighbours[xy] = {n \in xys : Chebyshev(n, xy) = 1}
           /\ xy \notin neighbours[xy]
           /\ Cardinality(neighbours[xy]) <= 8
           /\ Interior(xy) => Cardinality(neighbours[xy]) = 8
           /\ \A n \in xys : (n \in neighbours[xy]) <=> (xy \in neighbours[n])

\* On a 3x3 board the first open is on the square that touches no edge: it
\* has 8 neighbours, the mine among them in a corner.
C12_Witness ==
    /\ columns = 3 /\ rows = 3
    /\ call = "open"
    /\ _mines \cap {<<0, 0>>, <<2, 0>>, <<0, 2>>, <<2, 2>>} /= {}
    /\ \E xy \in opened :
           /\ Interior(xy)
           /\ Cardinality(neighbours[xy]) = 8
           /\ mines_near[xy] = 1

----------------------------------------------------------------------------
(* C13 *)

\* C13, as claimed: on a board whose target mine count is 0, a single open
\* of any square signals Win.
C13_SingleOpenWins ==
    [][call' = "open" => \A xy \in xys :
          (InPlay /\ mines_number = 0 /\ opened = {} /\ Open(xy)) =>
              "Win" \in signals']_vars

\* C13, amended: on a board whose target mine count is 0, the open of an
\* unopened square signals Win exactly when it opens the last unopened
\* square of the board; the first open signals Win exactly on a board of
\* one square.
C13_ZeroMinesWin ==
    [][call' = "open" => \A xy \in xys :
          (InPlay /\ mines_number = 0 /\ xy \notin opened /\ Open(xy)) =>
              /\ ("Win" \in signals') <=> (xys \subseteq opened')
              /\ (opened \cap xys = {}) =>
                     (("Win" \in signals') <=> (columns * rows = 1))]_vars

\* The single open of the one-square board without a mine has signaled Win.
C13_Witness ==
    /\ InPlay
    /\ columns = 1 /\ rows = 1
    /\ mines_number = 0
    /\ call = "open"
    /\ opened = {<<0, 0>>}
    /\ signals = {"Win"}
    /\ wins = 1

----------------------------------------------------------------------------
(* C14 *)

\* The board of 4 columns and 1 row of density 0.
Board4x1 == pc = "play" /\ columns = 4 /\ rows = 1 /\ mines_density = <<0, 1>>

\* C14: on the 4x1 board of density 0 empty_remaining starts at 4, and
\* open((0,0)) as first call sets mines_near[(0,0)] to 0 and
\* empty_remaining to 3 without signaling Win; on every board without a
\* mine and with more than one square the first open of a square does not
\* signal Win.
C14_NoWinOnFirstOpen ==
    /\ []((Board4x1 /\ call = "none") => empty_remaining = 4)
    /\ [][(Board4x1 /\ call = "none" /\ Open(<<0, 0>>)) =>
              /\ mines_near'[<<0, 0>>] = 0
              /\ empty_remaining' = 3
              /\ signals' = {}
              /\ wins' = 0]_vars
    /\ [][call' = "open" => \A xy \in xys :
              (/\ InPlay /\ _mines = {} /\ columns * rows > 1
               /\ opened \cap xys = {} /\ Open(xy)) =>
                  "Win" \notin signals']_vars

\* The 4x1 board after open((0,0)) as first call.
C14_Witness ==
    /\ Board4x1
    /\ call = "open"
    /\ opened = {<<0, 0>>}
    /\ mines_near[<<0, 0>>] = 0
    /\ empty_remaining = 3
    /\ signals = {}

----------------------------------------------------------------------------
(* C15 *)

\* C15: flag(xy) adds xy to flagged for every square of the board, opened or
\* not, mine or not; it leaves opened, mines_near, empty_remaining and the
\* mine set unchanged and signals neither Loss nor Win.
C15_FlagFrame ==
    [][call' = "flag" => \A xy \in xys :
          Flag(xy) =>
              /\ flagged' = flagged \cup {xy}
              /\ UNCHANGED <<opened, mines_near, empty_remaining, _mines>>
              /\ wins' = wins
              /\ signals' = {}
              /\ error' = "none"]_vars

\* The last call was a flag; an opened square without a mine is flagged,
\* and so are an unopened mine and an unopened square without a mine.
C15_Witness ==
    /\ pc = "play"
    /\ call = "flag"
    /\ flagged \cap OpenedSafe /= {}
    /\ (flagged \cap _mines) \ opened /= {}
    /\ (flagged \cap SafeCells) \ opened /= {}

----------------------------------------------------------------------------
(* C16 *)

\* The round trip, one call at a time: flag(xy) on an xy that is not
\* flagged gives a set that holds xy and is the former set once xy is taken
\* out; the removal of a flagged xy takes out xy and nothing else, and
\* changes nothing but flagged.
FlagUnflagRoundTrip ==
    /\ call' = "flag" => \A xy \in Inputs :
           (xy \notin flagged /\ Flag(xy)) =>
               /\ xy \in flagged'
               /\ flagged' \ {xy} = flagged
    /\ call' = "unflag" => \A xy \in Inputs :
           (xy \in flagged /\ Unflag(xy)) =>
               /\ xy \notin flagged'
               /\ flagged' \cup {xy} = flagged
               /\ error' = "none"
               /\ signals' = {}
               /\ UNCHANGED <<opened, mines_near, empty_remaining, wins>>

----------------------------------------------------------------------------
(* C17 *)

\* What open(xy) signals and raises, told from the opened squares, the
\* mines and the board alone.
OpenSignals(op, xy) ==
    IF xy \in op THEN {}
    ELSE IF xy \in _mines THEN {"Loss"}
    ELSE IF xy \notin xys THEN {}
    ELSE IF columns * rows - mines_number
                - Cardinality(((op \cup {xy}) \cap xys) \ _mines) <= 0
         THEN {"Win"} ELSE {}

OpenError(op, xy) ==
    IF xy \notin op /\ xy \notin _mines /\ xy \notin xys
    THEN "KeyError" ELSE "none"

\* C17: flags have no effect on the game. In every state of a constructed
\* board mines_near and empty_remaining are determined by opened and the
\* mines; every open(xy) takes opened to opened with xy added and signals
\* and raises what opened, xy and the mines determine; flag and unflag
\* leave opened, mines_near and empty_remaining unchanged and signal
\* nothing. So two runs with the same mines and the same opens agree on
\* opened, mines_near, empty_remaining and the signals of every open,
\* whatever flag and unflag calls lie between.
C17_FlagsNoEffect ==
    /\ [](pc = "play" =>
            /\ DOMAIN mines_near = opened \cap xys
            /\ \A xy \in opened \cap _mines : mines_near[xy] = "mine"
            /\ \A xy \in (opened \cap xys) \ _mines :
                   mines_near[xy] = MinesAround(xy)
            /\ empty_remaining = columns * rows - mines_number
                                     - Cardinality(OpenedSafe))
    /\ [][call' = "open" => \E xy \in Inputs :
              /\ opened' = opened \cup {xy}
              /\ signals' = OpenSignals(opened, xy)
              /\ error' = OpenError(opened, xy)]_vars
    /\ [][call' \in {"flag", "unflag"} =>
              /\ UNCHANGED <<opened, mines_near, empty_remaining, wins>>
              /\ signals' = {}]_vars

\* The game has been won after a mine was opened, while a flag stands on
\* a coordinate that is not opened.
C17_Witness ==
    /\ InPlay
    /\ call = "open"
    /\ signals = {"Win"}
    /\ flagged \ opened /= {}
    /\ opened \cap _mines /= {}

----------------------------------------------------------------------------
(* C18 *)

\* C18: for dimensions that are not negative, when the target mine count is
\* between 0 and columns x rows the sampling loop reaches, under fair
\* sampling, the target count and the constructor ends; an iteration adds
\* at most one mine, none when it draws a square that has one, and the
\* count never passes the target; when the target count is above
\* columns x rows the loop never ends.
C18_PlacementTerminates ==
    /\ (/\ columns >= 0 /\ rows >= 0
        /\ mines_number >= 0 /\ mines_number <= columns * rows)
           ~> (pc = "play" /\ Cardinality(_mines) = mines_number)
    /\ [][pc = "placing" =>
              /\ _mines \subseteq _mines'
              /\ Cardinality(_mines') <= Cardinality(_mines) + 1
              /\ mines_number >= 0 => Cardinality(_mines') <= mines_number
              /\ pc' = "play" => _mines' = _mines]_vars
    /\ []((columns >= 0 /\ rows >= 0 /\ mines_number > columns * rows)
              => pc = "placing")

\* The 2x2 board of density 1 is constructed: every square was drawn.
C18_Witness ==
    /\ columns = 2 /\ rows = 2
    /\ mines_density = <<1, 1>>
    /\ pc = "play"
    /\ _mines = xys

----------------------------------------------------------------------------
(* C19 *)

\* C19: when the board is driven by left clicks and right clicks only,
\* every opened mine is flagged in every state; a right click on an opened
\* mine does not remove its flag.
C19_OpenedMinesFlagged ==
    pc = "play" => (opened \cap _mines) \subseteq flagged

\* On the 1x1 board of density 1 the mine is opened and the last call was a
\* right click, on that square: its flag stands.
C19_Witness ==
    /\ columns = 1 /\ rows = 1 /\ mines_density = <<1, 1>>
    /\ opened = {<<0, 0>>}
    /\ call = "right_click"
    /\ flagged = {<<0, 0>>}

----------------------------------------------------------------------------
(* C20 *)

\* C20: whenever an open call raises an error, opened, mines_near, flagged
\* and empty_remaining are as they were before the call.
C20_OpenAtomic ==
    [][(InPlay /\ call' = "open" /\ error' /= "none") =>
           UNCHANGED <<opened, mines_near, flagged, empty_remaining>>]_vars

====
